---- MODULE Spec2Model ----
(***************************************************************************)
(* Model of package wrr (wrr.go): a smooth weighted round-robin scheduler. *)
(* New compiles the weights of the caller's slots into a lookup table      *)
(* (seq); Next walks the table with an atomic cursor.                      *)
(*                                                                         *)
(* Conventions: slot indices, table positions and cursor values are        *)
(* 0-based as in the Go code; TLA+ sequences are 1-based, so the element   *)
(* at Go index i of a slice s is s[i+1].                                   *)
(***************************************************************************)
EXTENDS Integers, Sequences, FiniteSets, TLC

VARIABLES
    input,   \* input[k]: the caller's slice handed to New for scheduler k
    wrr,     \* wrr[k]:   the *WRR returned by New (Nil before New / on error)
    err,     \* err[k]:   the error returned by New
    done,    \* done[k]:  New(input[k]) has returned
    hist,    \* hist[k]:  items returned by Next() on scheduler k, in return order
    turns,   \* turns[k]: the values (w.next.Add(1) - 1) obtained, in order of the Add
    pc,      \* pc[p]:    position of goroutine p inside Next()
    loc      \* loc[p]:   the local variable i of goroutine p inside Next()

vars == <<input, wrr, err, done, hist, turns, pc, loc>>

---------------------------------------------------------------------------
(* Bounds of the model *)

MaxSlots == 3        \* longest input slice enumerated (besides the oversized one)
MaxW == 4            \* largest weight enumerated
BadW == 1            \* invalid weights enumerated: -BadW .. 0
CursorBits == 9      \* width of the cursor in the model (atomic.Uint64 in the code)
NumProcs == 3        \* goroutines calling Next() concurrently
MaxConcCalls == 5    \* calls started in the concurrent specification
MaxPairSlots == 2    \* input length in the two-scheduler specification
MaxPairW == 3        \* largest base weight in the two-scheduler specification
MaxScale == 3        \* largest factor k in the two-scheduler specification
MaxWrapSlots == 3    \* longest input in the counter-wrap specification
MaxWrapW == 2        \* largest weight in the counter-wrap specification

MaxPairCalls == MaxPairW * MaxPairSlots + 1   \* one base cycle and one call more
MaxCalls == 2 * MaxW * MaxSlots + 1   \* two full raw cycles and one call more
Wrap == 2 ^ CursorBits
MaxWrapCalls == Wrap + 2 * MaxWrapSlots * MaxWrapW   \* past the wrap of the counter by two cycles

(* Program constants *)
MaxSlotCount == 65536    \* wrr.go:98
Uint16Mod == 65536       \* range of the uint16 table entries
ScenarioCalls == 400     \* wrr_test.go:109, wrr_test.go:155

Insts == {1, 2}
Procs == 1..NumProcs

---------------------------------------------------------------------------
(* Values *)

Nil == [nil |-> TRUE]

NoErr == [kind |-> "nil", idx |-> 0, val |-> 0]
ErrNoSlots == [kind |-> "no slots to weight", idx |-> 0, val |-> 0]
ErrTooMany(n) == [kind |-> "too many WRR slots", idx |-> 0, val |-> n]
ErrBadWeight(i, w) == [kind |-> "bad weight", idx |-> i, val |-> w]

\* the test type wItem: a name and a weight
wi(name, weight) == [name |-> name, w |-> weight]

Weight(s) == s.w

\* an item that is in no slice handed to New
Stranger == wi(0 - 1, 1)

\* the slice whose i-th item (0-based) is named i and has weight v[i]
MkSlots(v) == [i \in 1..Len(v) |-> wi(i - 1, v[i])]

---------------------------------------------------------------------------
(* Pure functions of wrr.go *)

RECURSIVE gcd(_, _)
gcd(a, b) == IF b # 0 THEN gcd(b, a % b) ELSE a

\* variant of GcdLoop: the loop stops one element early
RECURSIVE GcdLoopSkipsLast(_, _, _)
GcdLoopSkipsLast(w, k, g) ==
    IF k >= Len(w) THEN g ELSE GcdLoopSkipsLast(w, k + 1, gcd(g, w[k]))

\* the loop of normalize over w[1:], k is the 1-based position reached
RECURSIVE GcdLoop(_, _, _)
GcdLoop(w, k, g) == IF k > Len(w) THEN g ELSE GcdLoop(w, k + 1, gcd(g, w[k]))

RECURSIVE SumFrom(_, _)
SumFrom(w, k) == IF k > Len(w) THEN 0 ELSE w[k] + SumFrom(w, k + 1)

\* variant of normalize: the total is not recomputed after the division
normalizeStaleTot(w, tot) ==
    LET g == GcdLoop(w, 2, w[1])
    IN  IF g > 1
        THEN [eff |-> [i \in 1..Len(w) |-> w[i] \div g], tot |-> tot]
        ELSE [eff |-> w, tot |-> tot]

normalize(w, tot) ==
    LET g == GcdLoop(w, 2, w[1])
    IN  IF g > 1
        THEN LET w2 == [i \in 1..Len(w) |-> w[i] \div g]
             IN  [eff |-> w2, tot |-> SumFrom(w2, 1)]
        ELSE [eff |-> w, tot |-> tot]

\* variant of ScanWeights: only negative weights are rejected
RECURSIVE ScanWeightsNegOnly(_, _, _, _)
ScanWeightsNegOnly(slots, i, eff, tot) ==
    IF i >= Len(slots)
    THEN [err |-> NoErr, eff |-> eff, tot |-> tot]
    ELSE LET w == Weight(slots[i + 1])
         IN  IF w < 0
             THEN [err |-> ErrBadWeight(i, w), eff |-> eff, tot |-> tot]
             ELSE ScanWeightsNegOnly(slots, i + 1, Append(eff, w), tot + w)

\* the validation loop of New: i is the 0-based index reached
RECURSIVE ScanWeights(_, _, _, _)
ScanWeights(slots, i, eff, tot) ==
    IF i >= Len(slots)
    THEN [err |-> NoErr, eff |-> eff, tot |-> tot]
    ELSE LET w == Weight(slots[i + 1])
         IN  IF w <= 0
             THEN [err |-> ErrBadWeight(i, w), eff |-> eff, tot |-> tot]
             ELSE ScanWeights(slots, i + 1, Append(eff, w), tot + w)

\* variant of InnerPass: a credit equal to the best so far wins
RECURSIVE InnerPassLastWins(_, _, _, _)
InnerPassLastWins(cur, eff, j, best) ==
    IF j >= Len(eff)
    THEN [cur |-> cur, best |-> best]
    ELSE LET c == [cur EXCEPT ![j + 1] = @ + eff[j + 1]]
             b == IF c[j + 1] >= c[best + 1] THEN j ELSE best
         IN  InnerPassLastWins(c, eff, j + 1, b)

\* the inner loop "for j := range eff" of New, from index j with the
\* current best; credits are increased and compared in the same pass
RECURSIVE InnerPass(_, _, _, _)
InnerPass(cur, eff, j, best) ==
    IF j >= Len(eff)
    THEN [cur |-> cur, best |-> best]
    ELSE LET c == [cur EXCEPT ![j + 1] = @ + eff[j + 1]]
             b == IF c[j + 1] > c[best + 1] THEN j ELSE best
         IN  InnerPass(c, eff, j + 1, b)

\* variant of FillTable: the winner's credit is not reduced
RECURSIVE FillTableNoDebit(_, _, _, _)
FillTableNoDebit(seq, cur, eff, tot) ==
    IF Len(seq) >= tot
    THEN [seq |-> seq, cur |-> cur]
    ELSE LET r == InnerPass(cur, eff, 0, 0)
         IN  FillTableNoDebit(Append(seq, r.best % Uint16Mod), r.cur, eff, tot)

\* variant of FillStep: the winner's credit is reduced by its own weight
FillStepDebitsWeight(seq, cur, eff, tot) ==
    LET r == InnerPass(cur, eff, 0, 0)
    IN  [seq |-> Append(seq, r.best % Uint16Mod),
         cur |-> [r.cur EXCEPT ![r.best + 1] = @ - eff[r.best + 1]]]

\* one iteration of the outer loop of New: the inner pass, the table entry
\* and the debit of the winner
FillStep(seq, cur, eff, tot) ==
    LET r == InnerPass(cur, eff, 0, 0)
    IN  [seq |-> Append(seq, r.best % Uint16Mod),
         cur |-> [r.cur EXCEPT ![r.best + 1] = @ - tot]]

\* the outer loop "for i := range seq" of New; seq is the part of the
\* table filled so far, tot its final length
RECURSIVE FillTable(_, _, _, _)
FillTable(seq, cur, eff, tot) ==
    IF Len(seq) >= tot
    THEN [seq |-> seq, cur |-> cur]
    ELSE LET s == FillStep(seq, cur, eff, tot)
         IN  FillTable(s.seq, s.cur, eff, tot)

\* variant of New: w.slots is the caller's slice, not a copy of it
NewAliasing(slots) ==
    LET n == Len(slots)
    IN  IF n = 0 THEN [w |-> Nil, err |-> ErrNoSlots]
        ELSE IF n >= MaxSlotCount THEN [w |-> Nil, err |-> ErrTooMany(n)]
        ELSE LET sc == ScanWeights(slots, 0, <<>>, 0)
             IN  IF sc.err # NoErr THEN [w |-> Nil, err |-> sc.err]
                 ELSE LET nt == normalize(sc.eff, sc.tot)
                          tab == FillTable(<<>>, [j \in 1..n |-> 0], nt.eff, nt.tot)
                      IN  [w |-> [slots |-> slots, own |-> FALSE, seq |-> tab.seq,
                                 next |-> 0],
                           err |-> NoErr]

\* slots is the copy made into the array of make([]T, n); own says that the
\* array is the scheduler's own and not the one behind the caller's slice
New(slots) ==
    LET n == Len(slots)
    IN  IF n = 0 THEN [w |-> Nil, err |-> ErrNoSlots]
        ELSE IF n >= MaxSlotCount THEN [w |-> Nil, err |-> ErrTooMany(n)]
        ELSE LET sc == ScanWeights(slots, 0, <<>>, 0)
             IN  IF sc.err # NoErr THEN [w |-> Nil, err |-> sc.err]
                 ELSE LET nt == normalize(sc.eff, sc.tot)
                          tab == FillTable(<<>>, [j \in 1..n |-> 0], nt.eff, nt.tot)
                      IN  [w |-> [slots |-> slots, own |-> TRUE, seq |-> tab.seq,
                                 next |-> 0],
                           err |-> NoErr]

\* variant of AddOne: the cursor is kept inside the table
AddOneModLen(w) == [w EXCEPT !.next = (@ + 1) % Len(w.seq)]

\* w.next.Add(1): the new state of the scheduler
AddOne(w) == [w EXCEPT !.next = (@ + 1) % Wrap]

\* the value of w.next.Add(1) - 1 in unsigned arithmetic
Turn(w) == (((w.next + 1) % Wrap) - 1) % Wrap

\* variant of Pos: the cursor is read as a signed integer of the same width,
\* with the remainder of Go's signed % (the sign of the dividend)
PosSigned(w) ==
    LET t == Turn(w)
        st == IF t >= Wrap \div 2 THEN t - Wrap ELSE t
    IN  IF st < 0 THEN 0 - ((0 - st) % Len(w.seq)) ELSE st % Len(w.seq)

\* variant of Pos: the modulus is the number of slots, not the table length
PosBySlots(w) == Turn(w) % Len(w.slots)

\* i := (w.next.Add(1) - 1) % uint64(len(w.seq))
Pos(w) == Turn(w) % Len(w.seq)

\* j := w.seq[i]; return w.slots[j]
Lookup(w, i) == w.slots[w.seq[i + 1] + 1]

---------------------------------------------------------------------------
(* Actions *)

\* the caller invokes New(input[k]) and keeps the two results
Construct(k) ==
    /\ ~done[k]
    /\ LET r == New(input[k])
       IN  /\ wrr' = [wrr EXCEPT ![k] = r.w]
           /\ err' = [err EXCEPT ![k] = r.err]
    /\ done' = [done EXCEPT ![k] = TRUE]
    /\ UNCHANGED <<input, hist, turns, pc, loc>>

\* the caller overwrites an element of the slice it gave to New; the write
\* reaches w.slots only when w.slots shares the array of that slice
CallerWrite(k) ==
    /\ done[k] /\ wrr[k] # Nil
    /\ \E i \in 1..Len(input[k]) :
          /\ input[k][i] # Stranger
          /\ input' = [input EXCEPT ![k][i] = Stranger]
          /\ wrr' = [wrr EXCEPT ![k] =
                        IF @.own THEN @ ELSE [@ EXCEPT !.slots[i] = Stranger]]
    /\ UNCHANGED <<err, done, hist, turns, pc, loc>>

\* variant of NextCall: one cursor shared by all schedulers
NextCallSharedCursor(k) ==
    /\ wrr[k] # Nil
    /\ \A p \in Procs : pc[p] = "idle"
    /\ wrr' = [a \in Insts |-> IF wrr[a] # Nil THEN AddOne(wrr[a]) ELSE wrr[a]]
    /\ turns' = [turns EXCEPT ![k] = Append(@, Turn(wrr[k]))]
    /\ hist' = [hist EXCEPT ![k] = Append(@, Lookup(wrr[k], Pos(wrr[k])))]
    /\ UNCHANGED <<input, err, done, pc, loc>>

\* one complete call of Next() on scheduler k, not overlapping any other
NextCall(k) ==
    /\ wrr[k] # Nil
    /\ \A p \in Procs : pc[p] = "idle"
    /\ wrr' = [wrr EXCEPT ![k] = AddOne(@)]
    /\ turns' = [turns EXCEPT ![k] = Append(@, Turn(wrr[k]))]
    /\ hist' = [hist EXCEPT ![k] = Append(@, Lookup(wrr[k], Pos(wrr[k])))]
    /\ UNCHANGED <<input, err, done, pc, loc>>

\* variant of NextAdd: the cursor is loaded and stored in two steps
NextAddRacy(p) ==
    /\ wrr[1] # Nil
    /\ \/ /\ pc[p] = "idle"
          /\ loc' = [loc EXCEPT ![p] = wrr[1].next]
          /\ pc' = [pc EXCEPT ![p] = "loaded"]
          /\ UNCHANGED <<wrr, turns>>
       \/ /\ pc[p] = "loaded"
          /\ wrr' = [wrr EXCEPT ![1].next = (loc[p] + 1) % Wrap]
          /\ turns' = [turns EXCEPT ![1] = Append(@, loc[p])]
          /\ loc' = [loc EXCEPT ![p] = loc[p] % Len(wrr[1].seq)]
          /\ pc' = [pc EXCEPT ![p] = "added"]
    /\ UNCHANGED <<input, err, done, hist>>

\* goroutine p, inside Next() on scheduler 1: the atomic Add and the modulo
NextAdd(p) ==
    /\ pc[p] = "idle"
    /\ wrr[1] # Nil
    /\ wrr' = [wrr EXCEPT ![1] = AddOne(@)]
    /\ turns' = [turns EXCEPT ![1] = Append(@, Turn(wrr[1]))]
    /\ loc' = [loc EXCEPT ![p] = Pos(wrr[1])]
    /\ pc' = [pc EXCEPT ![p] = "added"]
    /\ UNCHANGED <<input, err, done, hist>>

\* variant of NextRet: the return waits until no other call is in flight
NextRetWaitsForOthers(p) ==
    /\ pc[p] = "added"
    /\ \A q \in Procs \ {p} : pc[q] # "added"
    /\ hist' = [hist EXCEPT ![1] = Append(@, Lookup(wrr[1], loc[p]))]
    /\ pc' = [pc EXCEPT ![p] = "idle"]
    /\ UNCHANGED <<input, wrr, err, done, turns, loc>>

\* goroutine p, inside Next() on scheduler 1: the two reads and the return
NextRet(p) ==
    /\ pc[p] = "added"
    /\ hist' = [hist EXCEPT ![1] = Append(@, Lookup(wrr[1], loc[p]))]
    /\ pc' = [pc EXCEPT ![p] = "idle"]
    /\ UNCHANGED <<input, wrr, err, done, turns, loc>>

---------------------------------------------------------------------------
(* Specifications *)

Weights == (0 - BadW)..MaxW

\* a slice of MaxSlotCount items of weight 1
Oversized == [i \in 1..MaxSlotCount |-> wi(i - 1, 1)]

Inputs ==
    {MkSlots(v) : v \in UNION {[1..n -> Weights] : n \in 0..MaxSlots}} \cup {Oversized}

Blank ==
    /\ wrr = [k \in Insts |-> Nil]
    /\ err = [k \in Insts |-> NoErr]
    /\ done = [k \in Insts |-> FALSE]
    /\ hist = [k \in Insts |-> <<>>]
    /\ turns = [k \in Insts |-> <<>>]
    /\ pc = [p \in Procs |-> "idle"]
    /\ loc = [p \in Procs |-> 0]

\* one scheduler, sequential calls, every input
Init ==
    /\ \E s \in Inputs : input = [k \in Insts |-> IF k = 1 THEN s ELSE <<>>]
    /\ Blank

Next ==
    \/ Construct(1)
    \/ (Len(hist[1]) < MaxCalls /\ NextCall(1))

Spec == Init /\ [][Next]_vars

\* valid slices of up to n items with weights 1..m
ValidInputs(n, m) == {MkSlots(v) : v \in UNION {[1..l -> 1..m] : l \in 1..n}}

\* the slice s with every weight multiplied by f
Scale(s, f) == [i \in 1..Len(s) |-> wi(s[i].name, f * s[i].w)]

\* one scheduler, NumProcs goroutines calling Next() concurrently
InitConc ==
    /\ \E s \in ValidInputs(MaxPairSlots, MaxPairW) :
           input = [k \in Insts |-> IF k = 1 THEN s ELSE <<>>]
    /\ Blank

NextConc ==
    \/ Construct(1)
    \/ \E p \in Procs : (Len(turns[1]) < MaxConcCalls /\ NextAdd(p))
    \/ \E p \in Procs : NextRet(p)

SpecConc == InitConc /\ [][NextConc]_vars

\* two schedulers, built from a slice and from the same slice scaled by f
\* (f = 1: identical inputs), with their sequential calls interleaved
InitPair ==
    /\ \E s \in ValidInputs(MaxPairSlots, MaxPairW), f \in 1..MaxScale :
           input = [k \in Insts |-> IF k = 1 THEN Scale(s, f) ELSE s]
    /\ Blank

NextPair ==
    \/ \E k \in Insts : Construct(k)
    \/ \E k \in Insts : (Len(hist[k]) < MaxPairCalls /\ NextCall(k))

SpecPair == InitPair /\ [][NextPair]_vars

\* the scenario of TestWeightRatio3to1 and TestSmoothnessNoBurst:
\* A (weight 3) and B (weight 1), 400 calls
InitScenario ==
    /\ input = [k \in Insts |-> IF k = 1 THEN <<wi(0, 3), wi(1, 1)>> ELSE <<>>]
    /\ Blank

NextScenario ==
    \/ Construct(1)
    \/ (Len(hist[1]) < ScenarioCalls /\ NextCall(1))

SpecScenario == InitScenario /\ [][NextScenario]_vars

\* goroutines calling Next() concurrently on the scheduler of the scenario,
\* where goroutine 1 is scheduled whenever it can take a step and nothing is
\* assumed of the other goroutines
SpecConcFair == InitScenario /\ [][NextConc]_vars /\ WF_vars(NextRet(1))

\* one scheduler, called sequentially until the cursor counter
\* has wrapped around
InitWrap ==
    /\ \E s \in ValidInputs(MaxWrapSlots, MaxWrapW) :
           input = [k \in Insts |-> IF k = 1 THEN s ELSE <<>>]
    /\ Blank

NextWrap ==
    \/ Construct(1)
    \/ (Len(hist[1]) < MaxWrapCalls /\ NextCall(1))

SpecWrap == InitWrap /\ [][NextWrap]_vars

\* one scheduler called sequentially while the caller overwrites the slice
\* it was built from
InitAlias ==
    /\ \E s \in ValidInputs(MaxPairSlots, MaxPairW) :
           input = [k \in Insts |-> IF k = 1 THEN s ELSE <<>>]
    /\ Blank

NextAlias ==
    \/ Construct(1)
    \/ (Len(hist[1]) < MaxPairCalls /\ NextCall(1))
    \/ CallerWrite(1)

SpecAlias == InitAlias /\ [][NextAlias]_vars

---------------------------------------------------------------------------
(* Vocabulary of the properties, defined independently of the code *)

\* scheduler k was constructed successfully
Built(k) == done[k] /\ wrr[k] # Nil

\* the declared weights of the slots handed to New for scheduler k
RawW(k) == [i \in 1..Len(input[k]) |-> input[k][i].w]

RECURSIVE Total(_)
Total(w) == IF w = <<>> THEN 0 ELSE Head(w) + Total(Tail(w))

DividesAll(d, w) == \A i \in 1..Len(w) : w[i] % d = 0

\* the greatest common divisor of the positive weights w
GcdOf(w) == CHOOSE d \in 1..w[1] :
                /\ DividesAll(d, w)
                /\ \A e \in (d + 1)..w[1] : ~DividesAll(e, w)

\* effective weight of slot i (1-based) and reduced total weight of scheduler k
EffW(k, i) == RawW(k)[i] \div GcdOf(RawW(k))
CycleLen(k) == Total(RawW(k)) \div GcdOf(RawW(k))

\* number of positions a..b of h that hold x
Count(h, a, b, x) == Cardinality({j \in a..b : h[j] = x})

\* x fills the positions a..b of h
AllAre(h, a, b, x) == \A j \in a..b : h[j] = x

CeilDiv(a, b) == (a + b - 1) \div b

---------------------------------------------------------------------------
(* C1 - proportionality per cycle: every aligned window of T calls
   (calls 1..T, T+1..2T, ...) of a constructed scheduler returns slot i
   exactly weight(i)/GCD times. *)
ProportionalPerCycle ==
    \A k \in Insts : Built(k) =>
        LET T == CycleLen(k)
        IN  \A c \in 0..((Len(hist[k]) \div T) - 1) :
                \A i \in 1..Len(input[k]) :
                    Count(hist[k], c * T + 1, (c + 1) * T, input[k][i]) = EffW(k, i)

\* a second aligned window is complete, for weights with GCD > 1
ProportionalPerCycleWitness ==
    /\ Built(1)
    /\ Len(input[1]) >= 2
    /\ GcdOf(RawW(1)) > 1
    /\ CycleLen(1) >= 3
    /\ Len(hist[1]) >= 2 * CycleLen(1)

(* C2 - proportionality on raw weights: every run of S consecutive calls,
   S the unreduced total weight, starting at any call number, returns slot
   i exactly Weight(i) times, also when the table is shorter than S. *)
ProportionalRaw ==
    \A k \in Insts : Built(k) =>
        LET S == Total(RawW(k))
        IN  \A a \in 1..(Len(hist[k]) - S + 1) :
                \A i \in 1..Len(input[k]) :
                    Count(hist[k], a, a + S - 1, input[k][i]) = RawW(k)[i]

\* an unaligned run of S calls is complete and the table is shorter than S
ProportionalRawWitness ==
    /\ Built(1)
    /\ Len(input[1]) >= 2
    /\ Len(wrr[1].seq) < Total(RawW(1))
    /\ Len(wrr[1].seq) >= 3
    /\ Len(hist[1]) >= Total(RawW(1)) + 2

(* C3 - smoothness, as claimed: no item i is returned more than
   ceil(2 * weight_i / T_raw) times consecutively. *)
SmoothAsClaimed ==
    \A k \in Insts : Built(k) =>
        \A i \in 1..Len(input[k]) :
            LET B == CeilDiv(2 * RawW(k)[i], Total(RawW(k)))
            IN  \A a \in 1..(Len(hist[k]) - B) :
                    ~AllAre(hist[k], a, a + B, input[k][i])

(* C3 - smoothness, amended: with two or more slots, no item i is returned
   more than weight_i / GCD times consecutively, also across the wrap of
   the cycle, unless the run spans the call at which the cursor counter
   wraps to 0, and then it is returned at most twice as often.
   Stated of the calls that end the history: every run of calls ends the
   history of some state. *)
SmoothAmended ==
    \A k \in Insts : (Built(k) /\ Len(input[k]) >= 2) =>
        \A i \in 1..Len(input[k]) :
            LET B == EffW(k, i)
                n == Len(hist[k])
            IN  /\ (n > B /\ AllAre(hist[k], n - B, n, input[k][i])) =>
                      turns[k][n] < turns[k][n - B]
                /\ n > 2 * B => ~AllAre(hist[k], n - 2 * B, n, input[k][i])

\* a run across the wrap is as long as the amended bound allows and longer
\* than the claimed bound
SmoothAmendedWitness ==
    /\ Built(1)
    /\ Len(input[1]) >= 2
    /\ \E i \in 1..Len(input[1]) :
          LET B == EffW(1, i)
              T == CycleLen(1)
          IN  /\ B > CeilDiv(2 * RawW(1)[i], Total(RawW(1)))
              /\ \E a \in 1..T : /\ a + B - 1 > T
                                 /\ a + B - 1 <= Len(hist[1])
                                 /\ AllAre(hist[1], a, a + B - 1, input[1][i])

(* C6 - periodicity: the item returned by call k+T equals the item
   returned by call k, for every k >= 1. *)
Periodic ==
    \A k \in Insts : Built(k) =>
        \A j \in 1..(Len(hist[k]) - CycleLen(k)) :
            hist[k][j + CycleLen(k)] = hist[k][j]

\* calls T+1..2T are complete and the cycle holds different items
PeriodicWitness ==
    /\ Built(1)
    /\ Len(hist[1]) >= 2 * CycleLen(1)
    /\ CycleLen(1) >= 4
    /\ \E j \in 1..CycleLen(1) : hist[1][j] # hist[1][1]

(* C7 - construction errors: New returns an error and no scheduler exactly
   when the input is empty, has 65536 or more slots, or holds a weight
   <= 0; the weight error names the position and the weight of the
   lowest-index offending slot; every other input gives a complete
   scheduler and no error. *)
ConstructionErrors ==
    \A k \in Insts : done[k] =>
        LET s == input[k]
            n == Len(s)
            bad == {i \in 1..n : s[i].w <= 0}
            reject == n = 0 \/ n >= 65536 \/ bad # {}
        IN  /\ reject <=> (err[k] # NoErr)
            /\ reject <=> (wrr[k] = Nil)
            /\ n = 0 => err[k].kind = "no slots to weight"
            /\ n >= 65536 => err[k].kind = "too many WRR slots"
            /\ (n > 0 /\ n < 65536 /\ bad # {}) =>
                  LET m == CHOOSE i \in bad : \A i2 \in bad : i <= i2
                  IN  err[k] = [kind |-> "bad weight", idx |-> m - 1, val |-> s[m].w]
            /\ ~reject => /\ wrr[k].slots = s
                          /\ Len(wrr[k].seq) > 0
                          /\ \A j \in 1..Len(wrr[k].seq) : wrr[k].seq[j] \in 0..(n - 1)

\* New rejected a zero weight at position 1 although a later slot is bad too
ConstructionErrorsWitness ==
    /\ done[1]
    /\ Len(input[1]) = 3
    /\ input[1][1].w > 0
    /\ input[1][2].w = 0
    /\ input[1][3].w < 0
    /\ err[1] = [kind |-> "bad weight", idx |-> 1, val |-> 0]
    /\ wrr[1] = Nil

(* C9 - compiled-cycle invariant: after a successful New the table has
   length sum(weights)/gcd(weights), index i occurs in it exactly
   weight(i)/gcd(weights) times, and the effective weights have GCD 1. *)
CompiledCycle ==
    \A k \in Insts : Built(k) =>
        /\ Len(wrr[k].seq) = CycleLen(k)
        /\ \A i \in 1..Len(input[k]) :
              Count(wrr[k].seq, 1, Len(wrr[k].seq), i - 1) = EffW(k, i)
        /\ GcdOf(normalize(RawW(k), Total(RawW(k))).eff) = 1

\* a table of three slots compiled from weights whose GCD is above 1
CompiledCycleWitness ==
    /\ Built(1)
    /\ Len(input[1]) = 3
    /\ GcdOf(RawW(1)) > 1
    /\ Len(wrr[1].seq) < Total(RawW(1))
    /\ \E i \in 1..3 : EffW(1, i) >= 2

---------------------------------------------------------------------------
(* C4 - concurrent calls take distinct consecutive turns: the pre-increment
   cursor values obtained by the calls are pairwise distinct and form the
   gap-free range 0..m-1, and once the m calls have returned the multiset
   of returned items equals that of m sequential calls. *)
DistinctConsecutiveTurns ==
    Built(1) =>
        LET t == turns[1]
            m == Len(t)
            w == wrr[1]
        IN  /\ \A a, b \in 1..m : a # b => t[a] # t[b]
            /\ {t[a] : a \in 1..m} = 0..(m - 1)
            /\ (\A p \in Procs : pc[p] = "idle") =>
                  /\ Len(hist[1]) = m
                  /\ \A i \in 1..Len(input[1]) :
                        Count(hist[1], 1, m, input[1][i])
                            = Cardinality({c \in 0..(m - 1) :
                                  w.seq[(c % Len(w.seq)) + 1] = i - 1})

\* three calls overlapped and the returns came in another order than the turns
DistinctConsecutiveTurnsWitness ==
    /\ Built(1)
    /\ Len(wrr[1].seq) >= 3
    /\ Len(turns[1]) >= 4
    /\ \A p \in Procs : pc[p] = "idle"
    /\ \E j \in 1..Len(hist[1]) :
          hist[1][j] # wrr[1].slots[wrr[1].seq[((j - 1) % Len(wrr[1].seq)) + 1] + 1]

---------------------------------------------------------------------------
Min(a, b) == IF a <= b THEN a ELSE b

(* C5 - determinism and independence: two schedulers built from identical
   ordered inputs return identical items at every call number, however
   their calls are interleaved, and each scheduler's cursor counts only
   its own calls. *)
Deterministic ==
    /\ (Built(1) /\ Built(2) /\ input[1] = input[2]) =>
          \A j \in 1..Min(Len(hist[1]), Len(hist[2])) : hist[1][j] = hist[2][j]
    /\ \A k \in Insts : Built(k) => wrr[k].next = Len(hist[k]) % Wrap

\* identical inputs, unevenly interleaved calls, one scheduler past its wrap
DeterministicWitness ==
    /\ Built(1) /\ Built(2) /\ input[1] = input[2]
    /\ CycleLen(1) >= 3
    /\ Len(hist[1]) > CycleLen(1)
    /\ Len(hist[2]) >= 2
    /\ Len(hist[2]) < Len(hist[1])
    /\ hist[1][2] # hist[1][1]

\* s repeated g times
RECURSIVE Repeat(_, _)
Repeat(s, g) == IF g = 0 THEN <<>> ELSE s \o Repeat(s, g - 1)

(* C8 - GCD reduction is transparent: the compiled cycle repeated GCD times
   is the cycle the credit algorithm produces on the unreduced weights, and
   schedulers built from k*w and from w return the same slots call for
   call. *)
GcdTransparent ==
    /\ \A k \in Insts : Built(k) =>
          Repeat(wrr[k].seq, GcdOf(RawW(k)))
              = FillTable(<<>>, [j \in 1..Len(input[k]) |-> 0],
                          RawW(k), Total(RawW(k))).seq
    /\ (Built(1) /\ Built(2)
          /\ \E f \in 1..MaxScale : RawW(1) = [i \in 1..Len(RawW(2)) |-> f * RawW(2)[i]]) =>
          \A j \in 1..Min(Len(hist[1]), Len(hist[2])) :
              hist[1][j].name = hist[2][j].name

\* weights scaled by a factor above 1, both schedulers called past the wrap
GcdTransparentWitness ==
    /\ Built(1) /\ Built(2)
    /\ Len(input[1]) = Len(input[2])
    /\ input[1][1].w > input[2][1].w
    /\ GcdOf(RawW(2)) = 1
    /\ CycleLen(2) >= 3
    /\ Len(wrr[1].seq) = Len(wrr[2].seq)
    /\ Len(hist[1]) > CycleLen(1)
    /\ Len(hist[2]) > CycleLen(2)

---------------------------------------------------------------------------
(* C10 - scenario A (weight 3), B (weight 1): 400 calls return A 300 times
   and B 100 times, no item is returned more than 3 times in a row, and
   calls 1-4 repeat at calls 5-8, 9-12, ...; the cycle length is 4. *)
Scenario3to1 ==
    Built(1) =>
        LET h == hist[1]
            A == input[1][1]
            B == input[1][2]
        IN  /\ Len(wrr[1].seq) = 4
            /\ Len(h) = 400 => /\ Count(h, 1, 400, A) = 300
                               /\ Count(h, 1, 400, B) = 100
            /\ \A a \in 1..(Len(h) - 3) : ~AllAre(h, a, a + 3, h[a])
            /\ \A j \in 1..(Len(h) - 4) : h[j + 4] = h[j]

\* all 400 calls were made
Scenario3to1Witness ==
    /\ Built(1)
    /\ RawW(1) = <<3, 1>>
    /\ Len(hist[1]) = 400

---------------------------------------------------------------------------
(* C11 - coverage window: with two or more slots, every window of 2*T
   consecutive calls, from any call number, contains every slot, and a
   slot is never passed over more than T times between two of its
   selections. *)
CoverageWindow ==
    \A k \in Insts : (Built(k) /\ Len(input[k]) >= 2) =>
        LET T == CycleLen(k)
            h == hist[k]
        IN  \A i \in 1..Len(input[k]) :
                /\ \A a \in 1..(Len(h) - 2 * T + 1) :
                      Count(h, a, a + 2 * T - 1, input[k][i]) >= 1
                /\ \A a \in 1..(Len(h) - T) :
                      \E j \in a..(a + T) : h[j] = input[k][i]

\* a window of 2*T calls that does not start at a cycle boundary is complete,
\* for a scheduler holding a slot of effective weight 1
CoverageWindowWitness ==
    /\ Built(1)
    /\ Len(input[1]) >= 3
    /\ CycleLen(1) >= 5
    /\ \E i \in 1..Len(input[1]) : EffW(1, i) = 1
    /\ Len(hist[1]) >= 2 * CycleLen(1) + 1

(* C12 - single-item degeneracy: a scheduler built from one item of any
   positive weight returns that item on every call and its compiled cycle
   has length 1. *)
SingleItem ==
    \A k \in Insts : (Built(k) /\ Len(input[k]) = 1) =>
        /\ Len(wrr[k].seq) = 1
        /\ \A j \in 1..Len(hist[k]) : hist[k][j] = input[k][1]

\* one item of weight above 2, called several times
SingleItemWitness ==
    /\ Built(1)
    /\ Len(input[1]) = 1
    /\ input[1][1].w >= 3
    /\ Len(hist[1]) >= 3

(* C17 - per-item coverage window: every window of 2 * ceil(T / w_i)
   consecutive calls, from any call number, also across the wrap of the
   cycle and of the cursor counter, contains slot i (w_i its effective
   weight).  Stated of the window that ends the history: every window ends
   the history of some state. *)
ItemCoverageWindow ==
    \A k \in Insts : Built(k) =>
        LET T == CycleLen(k)
            h == hist[k]
        IN  \A i \in 1..Len(input[k]) :
                LET win == 2 * CeilDiv(T, EffW(k, i))
                IN  Len(h) >= win =>
                        \E j \in (Len(h) - win + 1)..Len(h) : h[j] = input[k][i]

\* a slot of effective weight above 1 among three, with windows that span
\* the wrap of the cycle and the wrap of the cursor counter, where the cycle
\* is cut short
ItemCoverageWindowWitness ==
    /\ Built(1)
    /\ Len(input[1]) >= 3
    /\ Wrap % CycleLen(1) # 0
    /\ \E i \in 1..Len(input[1]) :
          /\ EffW(1, i) >= 2
          /\ Len(hist[1]) >= Wrap + 2 * CeilDiv(CycleLen(1), EffW(1, i))

---------------------------------------------------------------------------
\* the specified step: add the weights to all credits, pick the earliest slot
\* of greatest credit, reduce its credit by T; repeated until T slots are picked
RECURSIVE TwoPhaseTable(_, _, _, _)
TwoPhaseTable(seq, cur, eff, T) ==
    IF Len(seq) >= T
    THEN seq
    ELSE LET n == Len(eff)
             c2 == [j \in 1..n |-> cur[j] + eff[j]]
             top == {j \in 1..n : \A j2 \in 1..n : c2[j2] <= c2[j]}
             win == CHOOSE j \in top : \A j2 \in top : j <= j2
         IN  TwoPhaseTable(Append(seq, win - 1), [c2 EXCEPT ![win] = @ - T], eff, T)

(* C16 - selection rule and tie-break: at every position of the cycle the
   slot emitted by the single-pass loop of New is the slot the two-phase
   step picks: all credits increased first, then the earliest slot of
   strictly greatest credit, then T taken from the winner. *)
SelectionRule ==
    \A k \in Insts : Built(k) =>
        wrr[k].seq = TwoPhaseTable(<<>>, [j \in 1..Len(input[k]) |-> 0],
                                   [j \in 1..Len(input[k]) |-> EffW(k, j)],
                                   CycleLen(k))

\* the two first slots tie for the greatest credit at the first position
SelectionRuleWitness ==
    /\ Built(1)
    /\ Len(input[1]) = 3
    /\ input[1][1].w = input[1][2].w
    /\ input[1][3].w < input[1][1].w
    /\ GcdOf(RawW(1)) = 1
    /\ wrr[1].seq[1] = 0

---------------------------------------------------------------------------
\* the loop body of New run for m positions from the credits cur; trace
\* collects the credits after each position
RECURSIVE CreditRun(_, _, _, _, _, _)
CreditRun(seq, cur, eff, tot, m, trace) ==
    IF m = 0
    THEN [seq |-> seq, cur |-> cur, trace |-> trace]
    ELSE LET s == FillStep(seq, cur, eff, tot)
         IN  CreditRun(s.seq, s.cur, eff, tot, m - 1, Append(trace, s.cur))

\* every credit vector of the trace sums to 0
EachSumsToZero(trace) == \A pos \in 1..Len(trace) : Total(trace[pos]) = 0

(* C20 - credit accounting is closed: after each position is filled the
   credits sum to 0, after the T-th position every credit is 0, and running
   the credit algorithm on beyond T positions replays the compiled cycle. *)
CreditsClosed ==
    \A k \in Insts : Built(k) =>
        LET nt == normalize(RawW(k), Total(RawW(k)))
            z == [j \in 1..Len(input[k]) |-> 0]
            run == CreditRun(<<>>, z, nt.eff, nt.tot, 2 * nt.tot, <<>>)
        IN  /\ Len(run.trace) = 2 * nt.tot
            /\ EachSumsToZero(run.trace)
            /\ run.trace[nt.tot] = z
            /\ FillTable(<<>>, z, nt.eff, nt.tot).cur = z
            /\ run.seq = wrr[k].seq \o wrr[k].seq

\* three slots with a GCD above 1 whose credits are not all 0 in mid-cycle
CreditsClosedWitness ==
    /\ Built(1)
    /\ Len(input[1]) = 3
    /\ GcdOf(RawW(1)) > 1
    /\ CycleLen(1) >= 4
    /\ LET nt == normalize(RawW(1), Total(RawW(1)))
       IN  \E j \in 1..3 : CreditRun(<<>>, <<0, 0, 0>>, nt.eff, nt.tot, 2, <<>>).cur[j] # 0

---------------------------------------------------------------------------
(* C14 - Next() never fails: the compiled cycle is non-empty, every entry
   is a valid index into the item storage, and for every cursor value,
   also after the counter has wrapped, the position Next() computes lies
   inside the cycle and the item returned is one of the stored items. *)
NextNeverFails ==
    \A k \in Insts : Built(k) =>
        LET w == wrr[k]
            n == Len(w.slots)
        IN  /\ Len(w.seq) > 0
            /\ n > 0 /\ n < 65536
            /\ \A j \in 1..Len(w.seq) : w.seq[j] \in 0..(n - 1)
            /\ w.next \in 0..(Wrap - 1)
            /\ Pos(w) \in 0..(Len(w.seq) - 1)
            /\ \A j \in 1..Len(hist[k]) : \E i \in 1..n : hist[k][j] = input[k][i]

\* the counter has wrapped and calls were made after the wrap
NextNeverFailsWitness ==
    /\ Built(1)
    /\ Len(wrr[1].seq) = 3
    /\ Len(hist[1]) > Wrap + 1
    /\ wrr[1].next = Len(hist[1]) - Wrap

(* C18 - cycle position continuity across counter overflow: on every call
   the cycle position used is the position of the previous call plus one,
   modulo the cycle length, also on the call at which the cursor wraps. *)
PositionContinuity ==
    \A k \in Insts : Built(k) =>
        LET L == Len(wrr[k].seq)
            t == turns[k]
        IN  \A j \in 1..(Len(t) - 1) : t[j + 1] % L = ((t[j] % L) + 1) % L

---------------------------------------------------------------------------
(* C15 - frame of Next(): a call increases the cursor by exactly one and
   changes nothing else; the compiled cycle and the item storage stay as
   New built them, under sequential and concurrent calls. *)
NextFrame ==
    [][\A k \in Insts : Built(k) =>
          /\ wrr'[k] # Nil
          /\ wrr'[k].seq = wrr[k].seq
          /\ wrr'[k].slots = wrr[k].slots
          /\ input'[k] = input[k]
          /\ err'[k] = err[k]
          /\ done'[k] = done[k]
          /\ IF turns'[k] # turns[k]
             THEN /\ Len(turns'[k]) = Len(turns[k]) + 1
                  /\ wrr'[k].next = (wrr[k].next + 1) % Wrap
             ELSE wrr'[k].next = wrr[k].next]_vars

\* two calls are in flight after a full cycle of calls has returned
NextFrameWitness ==
    /\ Built(1)
    /\ Len(wrr[1].seq) >= 2
    /\ Len(hist[1]) >= Len(wrr[1].seq)
    /\ Cardinality({p \in Procs : pc[p] = "added"}) >= 2

(* C19 - Next() is wait-free: a call that has done its atomic Add returns
   as soon as its goroutine is scheduled, whether the other callers go on
   or stop for ever in mid-call. *)
WaitFree == (pc[1] = "added") ~> (pc[1] = "idle")

\* goroutine 1 has returned from a call while another call is still in flight
WaitFreeWitness ==
    /\ Built(1)
    /\ pc[1] = "idle"
    /\ Len(hist[1]) >= 1
    /\ Len(turns[1]) > Len(hist[1])
    /\ turns[1][Len(turns[1])] = wrr[1].next - 1
    /\ \E p \in Procs : pc[p] = "added" /\ loc[p] # Pos(wrr[1])

(* C13 - New does not change the caller's slice and keeps a copy of it:
   what the caller later writes into its slice changes neither the
   scheduler nor the items Next() returns. *)
InputIsolated ==
    [][\A k \in Insts :
          /\ (~done[k] /\ done'[k]) =>
                /\ input'[k] = input[k]
                /\ wrr'[k] # Nil => wrr'[k].slots = input[k]
          /\ (Built(k) /\ input'[k] # input[k]) => wrr'[k] = wrr[k]
          /\ (Built(k) /\ Len(hist'[k]) > Len(hist[k])) =>
                /\ wrr'[k].slots = wrr[k].slots
                /\ hist'[k][Len(hist'[k])] # Stranger
                /\ \E i \in 1..Len(wrr[k].slots) :
                      hist'[k][Len(hist'[k])] = wrr[k].slots[i]]_vars

\* the caller has overwritten its whole slice and a cycle of calls was made
InputIsolatedWitness ==
    /\ Built(1)
    /\ Len(input[1]) >= 2
    /\ \A i \in 1..Len(input[1]) : input[1][i] = Stranger
    /\ wrr[1].slots # input[1]
    /\ Len(hist[1]) >= Len(wrr[1].seq)

====
